---- MODULE Spec2Model ----
(***************************************************************************)
(* A model of gogen: the parser's intermediate model (model.Type, Field,   *)
(* TypeRef), the configuration (config.Config), the type mapper (mapType)  *)
(* and the generator (Generate, filterTypes, flattenEmbedded,              *)
(* flattenFields).  flattenFields is modelled as a step machine with an    *)
(* explicit call stack, one step per iteration of its loop, sharing the    *)
(* one `seen` map that the Go code passes by reference.                    *)
(***************************************************************************)
EXTENDS Integers, Sequences, FiniteSets, TLC

VARIABLES
    file,       \* *model.File handed to Generate (the parser's output)
    cfg,        \* *config.Config of the generator
    pc,         \* position of the generator: "idle", "flatten", "execute"
    types,      \* Generate's local `types` (the filtered declarations)
    typeMap,    \* Generate's local `typeMap`
    ti,         \* index of flattenEmbedded's loop over types
    result,     \* flattenEmbedded's local `result`
    stack,      \* the active flattenFields calls, innermost last
    seen,       \* the `seen` map of the current flattenFields call tree
    outs,       \* the TemplateData.Types of each finished Generate call
    err,        \* the error the last Generate or LoadFile call returned, "nil" for none
    execs,      \* the TemplateData of each template.Execute of the current Generate call
    xi,         \* the index i of the per-type loop of Generate
    call        \* the call of a function on its own: its arguments and result

vars == <<file, cfg, pc, types, typeMap, ti, result, stack, seen, outs, err, execs, xi, call>>

-----------------------------------------------------------------------------
(* Bounds of the model.                                                    *)

\* most field entries in the body of the record R of the parsed unit
MaxFields == 3
\* most calls of Generate on one generator
MaxRuns == 2
\* deepest nesting of the type expressions handed to mapType
MaxNesting == 1
\* most names in the include list and in the exclude list
MaxListLen == 2
\* most calls of LoadFile on one configuration
MaxLoads == 2
\* most type declarations in a unit handed to a configured generator
MaxDecls == 3

-----------------------------------------------------------------------------
(* model.TypeKind                                                          *)

KindStruct == "struct"
KindAlias == "alias"
KindNamed == "named"
KindBasic == "basic"
KindSlice == "slice"
KindArray == "array"
KindMap == "map"
KindPointer == "pointer"
KindInterface == "interface"

\* a nil *TypeRef
NilRef == [Kind |-> "nil"]

\* model.TypeRef with the zero value in every field that is not given
TypeRef(kind, name, package, elem, key, value, raw) ==
    [Kind |-> kind, Name |-> name, Package |-> package, Elem |-> elem,
     Key |-> key, Value |-> value, Raw |-> raw]

-----------------------------------------------------------------------------
(* The syntax tree the parser reads (go/ast), as records tagged by node.   *)

Ident(name) == [node |-> "Ident", Name |-> name]
SelectorExpr(x, sel) == [node |-> "SelectorExpr", X |-> x, Sel |-> sel]
StarExpr(x) == [node |-> "StarExpr", X |-> x]
SliceType(elt) == [node |-> "ArrayType", HasLen |-> FALSE, Elt |-> elt]
ArrayType(elt) == [node |-> "ArrayType", HasLen |-> TRUE, Elt |-> elt]
AstMapType(key, value) == [node |-> "MapType", Key |-> key, Value |-> value]
InterfaceType == [node |-> "InterfaceType"]
ChanType(value) == [node |-> "ChanType", Value |-> value]
FuncType == [node |-> "FuncType"]
Ellipsis(elt) == [node |-> "Ellipsis", Elt |-> elt]
ParenExpr(x) == [node |-> "ParenExpr", X |-> x]
StructType(fields) == [node |-> "StructType", Fields |-> fields]
\* one entry of an ast.FieldList: the bound names and the type expression
AstField(names, type) == [Names |-> names, Type |-> type]
\* an ast.TypeSpec: `type Name Type` or, with assign, `type Name = Type`
TypeSpec(name, assign, type) == [Name |-> name, Assign |-> assign, Type |-> type]

\* an ast.GenDecl: `type`, `var`, `const` or `import` with its specs
GenDecl(tok, specs) == [node |-> "GenDecl", Tok |-> tok, Specs |-> specs]
\* an ast.ValueSpec without a function literal in it
ValueSpec == [node |-> "ValueSpec"]
\* an ast.FuncDecl with the statements of its body
FuncDecl(name, body) == [node |-> "FuncDecl", Name |-> name, Body |-> body]
DeclStmt(decl) == [node |-> "DeclStmt", Decl |-> decl]
BlockStmt(list) == [node |-> "BlockStmt", List |-> list]
ExprStmt == [node |-> "ExprStmt"]
\* the file with one `type` declaration for each of specs and nothing else
TypeDecls(specs) == [k \in 1..Len(specs) |-> GenDecl("type", <<specs[k]>>)]

\* ast.IsExported: the name begins with an upper case letter.  The names of
\* the model that do.
UpperNames ==
    {"R", "A", "C", "X", "User", "Decimal", "Time", "ID", "Name", "Email", "Audit", "By"}
IsExported(name) == name \in UpperNames

\* typeRefFromExpr
RECURSIVE typeRefFromExpr(_)
typeRefFromExpr(expr) ==
    CASE expr.node = "Ident" ->
            TypeRef(KindBasic, expr.Name, "", NilRef, NilRef, NilRef, expr.Name)
      [] expr.node = "SelectorExpr" ->
            LET pkg == IF expr.X.node = "Ident" THEN expr.X.Name ELSE ""
            IN  TypeRef(KindNamed, expr.Sel, pkg, NilRef, NilRef, NilRef,
                        pkg \o "." \o expr.Sel)
      [] expr.node = "StarExpr" ->
            LET elem == typeRefFromExpr(expr.X)
            IN  TypeRef(KindPointer, "", "", elem, NilRef, NilRef, "*" \o elem.Raw)
      [] expr.node = "ArrayType" ->
            LET elem == typeRefFromExpr(expr.Elt)
            IN  IF ~expr.HasLen
                THEN TypeRef(KindSlice, "", "", elem, NilRef, NilRef, "[]" \o elem.Raw)
                ELSE TypeRef(KindArray, "", "", elem, NilRef, NilRef, "[...]" \o elem.Raw)
      [] expr.node = "MapType" ->
            LET key == typeRefFromExpr(expr.Key)
                value == typeRefFromExpr(expr.Value)
            IN  TypeRef(KindMap, "", "", NilRef, key, value,
                        "map[" \o key.Raw \o "]" \o value.Raw)
      [] expr.node = "InterfaceType" ->
            TypeRef(KindInterface, "interface{}", "", NilRef, NilRef, NilRef, "interface{}")
      [] expr.node = "ChanType" ->
            LET elem == typeRefFromExpr(expr.Value)
            IN  TypeRef(KindBasic, "chan", "", elem, NilRef, NilRef, "chan " \o elem.Raw)
      [] expr.node = "FuncType" ->
            TypeRef(KindBasic, "func", "", NilRef, NilRef, NilRef, "func")
      [] expr.node = "Ellipsis" ->
            LET elem == typeRefFromExpr(expr.Elt)
            IN  TypeRef(KindSlice, "", "", elem, NilRef, NilRef, "..." \o elem.Raw)
      [] OTHER ->
            TypeRef(KindBasic, "unknown", "", NilRef, NilRef, NilRef, "unknown")

\* model.Field (Tag and Doc, which nothing in the model reads, are left out)
Field(name, type, isExported, isEmbedded) ==
    [Name |-> name, Type |-> type, IsExported |-> isExported, IsEmbedded |-> isEmbedded]

\* the fields one entry of the field list gives (the body of extractFields' loop)
FieldsOfEntry(f) ==
    LET typeRef == typeRefFromExpr(f.Type)
    IN  IF Len(f.Names) = 0
        THEN <<Field(typeRef.Name, typeRef, IsExported(typeRef.Name), TRUE)>>
        ELSE [k \in 1..Len(f.Names) |->
                 Field(f.Names[k], typeRef, IsExported(f.Names[k]), FALSE)]

\* extractFields
RECURSIVE extractFields(_)
extractFields(fieldList) ==
    IF fieldList = <<>> THEN <<>>
    ELSE FieldsOfEntry(Head(fieldList)) \o extractFields(Tail(fieldList))

\* model.Type
Type(name, kind, fields, underlying, isExported) ==
    [Name |-> name, Kind |-> kind, Doc |-> "", Fields |-> fields,
     Underlying |-> underlying, IsExported |-> isExported]

\* extractType
extractType(spec) ==
    CASE spec.Type.node = "StructType" ->
            Type(spec.Name, KindStruct, extractFields(spec.Type.Fields), NilRef,
                 IsExported(spec.Name))
      [] spec.Type.node = "InterfaceType" ->
            Type(spec.Name, KindInterface, <<>>, NilRef, IsExported(spec.Name))
      [] OTHER ->
            Type(spec.Name, IF spec.Assign THEN KindAlias ELSE KindNamed, <<>>,
                 typeRefFromExpr(spec.Type), IsExported(spec.Name))

\* the nodes ast.Inspect goes on to below node n, the callback of ParseFile
\* having returned true (lines 122 and 134); specs and expressions have no
\* declaration below them
InspectChildren(n) ==
    CASE n.node = "FuncDecl" -> n.Body
      [] n.node = "DeclStmt" -> <<n.Decl>>
      [] n.node = "BlockStmt" -> n.List
      [] OTHER -> <<>>

\* the callback of ParseFile at node n, lines 120-133: the types of a
\* `type` declaration's specs
InspectNode(n) ==
    IF n.node = "GenDecl" /\ n.Tok = "type"
    THEN [k \in 1..Len(n.Specs) |-> extractType(n.Specs[k])]
    ELSE <<>>

\* ast.Inspect over the nodes, depth first in source order: what the
\* callback appends to result.Types
RECURSIVE Inspect(_)
Inspect(nodes) ==
    IF nodes = <<>> THEN <<>>
    ELSE InspectNode(Head(nodes)) \o Inspect(InspectChildren(Head(nodes)))
            \o Inspect(Tail(nodes))

\* ParseFile on the file with the declarations decls
ParseFile(decls) == [Types |-> Inspect(decls)]

-----------------------------------------------------------------------------
(* config.Config                                                           *)

\* a map[string]string is a function from its keys; the empty map
EmptyMap == [k \in {} |-> ""]

\* DefaultTypeMappings, restricted to the spellings the model uses
DefaultTypeMappings ==
    [k \in {"string", "int", "interface{}", "time.Time", "decimal.Decimal"} |->
        CASE k = "string" -> "string"
          [] k = "int" -> "number"
          [] k = "interface{}" -> "unknown"
          [] k = "time.Time" -> "string"
          [] k = "decimal.Decimal" -> "string"]

\* DefaultOptions
DefaultOptions ==
    [PerType |-> FALSE, ExportedOnly |-> TRUE, TagKey |-> "json",
     IncludeTypes |-> <<>>, ExcludeTypes |-> <<>>]

\* config.New
NewConfig == [TypeMappings |-> DefaultTypeMappings, Options |-> DefaultOptions]

\* (mutant of MergeMappings: the loaded table replaces the table)
MergeMappingsReplaces(cur, loaded) == loaded

\* merge, lines 73-77: every entry of the loaded table is written into the
\* table (a nil table is the table without entries)
MergeMappings(cur, loaded) ==
    [k \in DOMAIN cur \cup DOMAIN loaded |->
        IF k \in DOMAIN loaded THEN loaded[k] ELSE cur[k]]

\* merge, lines 80-82
MergeTagKey(cur, loaded) == IF loaded # "" THEN loaded ELSE cur

\* merge, lines 83-85
MergePerType(cur, loaded) == IF loaded THEN TRUE ELSE cur

\* (mutant of MergeExportedOnly: only an explicit true is taken over)
MergeExportedOnlyTrueWins(cur, loaded) == IF loaded THEN TRUE ELSE cur

\* merge, line 87
MergeExportedOnly(cur, loaded) == loaded

\* merge, lines 88-89: the loaded list is assigned
MergeList(cur, loaded) == loaded

\* Config.merge
merge(c, loaded) ==
    [TypeMappings |-> MergeMappings(c.TypeMappings, loaded.TypeMappings),
     Options |->
        [TagKey |-> MergeTagKey(c.Options.TagKey, loaded.Options.TagKey),
         PerType |-> MergePerType(c.Options.PerType, loaded.Options.PerType),
         ExportedOnly |-> MergeExportedOnly(c.Options.ExportedOnly, loaded.Options.ExportedOnly),
         IncludeTypes |-> MergeList(c.Options.IncludeTypes, loaded.Options.IncludeTypes),
         ExcludeTypes |-> MergeList(c.Options.ExcludeTypes, loaded.Options.ExcludeTypes)]]

\* a key of a configuration document: absent is <<>>, the value v is <<v>>
Absent == <<>>
Given(v) == <<v>>
ValueOr(o, zero) == IF o = Absent THEN zero ELSE o[1]

\* yaml.Unmarshal / json.Unmarshal into `var loaded Config` (LoadFile, lines
\* 45-62): a key the document leaves out keeps the zero value of its field
Unmarshal(doc) ==
    [TypeMappings |-> ValueOr(doc.typeMappings, EmptyMap),
     Options |->
        [TagKey |-> ValueOr(doc.tagKey, ""),
         PerType |-> ValueOr(doc.perType, FALSE),
         ExportedOnly |-> ValueOr(doc.exportedOnly, FALSE),
         IncludeTypes |-> ValueOr(doc.includeTypes, <<>>),
         ExcludeTypes |-> ValueOr(doc.excludeTypes, <<>>)]]

\* the loop `for _, t := range list { if t == name {...} }`
InList(list, name) == \E k \in 1..Len(list) : list[k] = name

\* (mutant of ShouldIncludeType: a name found in the include list is accepted
\* without looking at the exclude list)
ShouldIncludeTypeIncludeWins(c, name, isExported) ==
    IF c.Options.ExportedOnly /\ ~isExported THEN FALSE
    ELSE IF Len(c.Options.IncludeTypes) > 0
         THEN InList(c.Options.IncludeTypes, name)
    ELSE IF InList(c.Options.ExcludeTypes, name) THEN FALSE
    ELSE TRUE

\* Config.ShouldIncludeType
ShouldIncludeType(c, name, isExported) ==
    IF c.Options.ExportedOnly /\ ~isExported THEN FALSE
    ELSE IF Len(c.Options.IncludeTypes) > 0 /\ ~InList(c.Options.IncludeTypes, name)
         THEN FALSE
    ELSE IF InList(c.Options.ExcludeTypes, name) THEN FALSE
    ELSE TRUE

\* Config.MapType
MapType(c, goType) ==
    IF goType \in DOMAIN c.TypeMappings THEN c.TypeMappings[goType] ELSE goType

-----------------------------------------------------------------------------
(* mapType (funcs.go)                                                      *)

\* (mutant of Matches: any entry for the key matches)
MatchesAnyEntry(c, key) == key \in DOMAIN c.TypeMappings

\* `if mapped := cfg.MapType(key); mapped != key`: the table has an entry for
\* key whose value is not key itself
Matches(c, key) == MapType(c, key) # key

\* (mutant of TableMatch: the bare name is looked up first)
TableMatchNameFirst(c, t) ==
    IF Matches(c, t.Name) THEN <<MapType(c, t.Name)>>
    ELSE IF t.Package # "" /\ Matches(c, t.Package \o "." \o t.Name)
         THEN <<MapType(c, t.Package \o "." \o t.Name)>>
    ELSE IF Matches(c, t.Raw) THEN <<MapType(c, t.Raw)>>
    ELSE <<>>

\* the three table lookups of mapType, in the order of the code: the mapped
\* spelling in a one-element sequence, or the empty sequence when none matches
TableMatch(c, t) ==
    IF Matches(c, t.Raw) THEN <<MapType(c, t.Raw)>>
    ELSE IF t.Package # "" /\ Matches(c, t.Package \o "." \o t.Name)
         THEN <<MapType(c, t.Package \o "." \o t.Name)>>
    ELSE IF Matches(c, t.Name) THEN <<MapType(c, t.Name)>>
    ELSE <<>>

RECURSIVE mapType(_, _)

\* (mutant of Structural: the case of KindArray is missing)
StructuralNoArray(c, t) ==
    IF t.Kind = KindSlice /\ t.Elem # NilRef
        THEN mapType(c, t.Elem) \o "[]"
    ELSE IF t.Kind = KindMap /\ t.Key # NilRef /\ t.Value # NilRef
        THEN "Record<" \o mapType(c, t.Key) \o ", " \o mapType(c, t.Value) \o ">"
    ELSE IF t.Kind = KindPointer /\ t.Elem # NilRef
        THEN mapType(c, t.Elem) \o " | null"
    ELSE IF t.Kind = KindInterface
        THEN "unknown"
    ELSE t.Name

\* the switch on t.Kind of mapType and its default
Structural(c, t) ==
    IF t.Kind \in {KindSlice, KindArray} /\ t.Elem # NilRef
        THEN mapType(c, t.Elem) \o "[]"
    ELSE IF t.Kind = KindMap /\ t.Key # NilRef /\ t.Value # NilRef
        THEN "Record<" \o mapType(c, t.Key) \o ", " \o mapType(c, t.Value) \o ">"
    ELSE IF t.Kind = KindPointer /\ t.Elem # NilRef
        THEN mapType(c, t.Elem) \o " | null"
    ELSE IF t.Kind = KindInterface
        THEN "unknown"
    ELSE t.Name

mapType(c, t) ==
    IF TableMatch(c, t) # <<>> THEN TableMatch(c, t)[1] ELSE Structural(c, t)

-----------------------------------------------------------------------------
(* The generator (generator.go)                                            *)

\* (mutant of filterTypes: every type is kept)
filterTypesKeepsAll(c, ts) == ts

\* filterTypes
filterTypes(c, ts) ==
    SelectSeq(ts, LAMBDA t : ShouldIncludeType(c, t.Name, t.IsExported))

\* `for _, t := range file.Types { typeMap[t.Name] = t }`: the last
\* declaration of a name is the one the map keeps
BuildTypeMap(ts) ==
    [n \in {ts[k].Name : k \in 1..Len(ts)} |->
        ts[CHOOSE k \in 1..Len(ts) :
              /\ ts[k].Name = n
              /\ \A j \in 1..Len(ts) : ts[j].Name = n => j <= k]]

\* the name flattenFields looks an embedded field up by (lines 133-137)
EmbeddedTypeName(f) ==
    IF f.Type.Name = "" /\ f.Type.Elem # NilRef THEN f.Type.Elem.Name
    ELSE f.Type.Name

\* (mutant of SeenHas: the cycle guard never finds the name)
SeenHasNever(s, typeName) == FALSE

\* `seen[typeName]`
SeenHas(s, typeName) == typeName \in s

\* `seen[typeName] = true`
SeenAdd(s, typeName) == s \cup {typeName}

\* (mutant of SeenDelete: the name stays in seen after the recursive call)
SeenDeleteNothing(s, typeName) == s

\* `delete(seen, typeName)`
SeenDelete(s, typeName) == s \ {typeName}

\* `embeddedType, ok := typeMap[typeName]` with ok and a struct found
Resolves(tm, typeName) ==
    typeName \in DOMAIN tm /\ tm[typeName].Kind = KindStruct

\* (mutant of AppendFields: the inlined fields are put in front)
AppendFieldsInFront(res, embeddedFields) == embeddedFields \o res

\* `result = append(result, embeddedFields...)`
AppendFields(res, embeddedFields) == res \o embeddedFields

\* flattenFields as the function it is: the loop from field i on, with the
\* result and the seen map so far; gives the result and the seen map at return
RECURSIVE FlattenLoop(_, _, _, _, _)
FlattenLoop(fields, i, tm, res, sn) ==
    IF i > Len(fields) THEN [result |-> res, seen |-> sn]
    ELSE LET f == fields[i]
             typeName == EmbeddedTypeName(f)
         IN  IF ~f.IsEmbedded
             THEN FlattenLoop(fields, i + 1, tm, Append(res, f), sn)
             ELSE IF SeenHas(sn, typeName)
             THEN FlattenLoop(fields, i + 1, tm, res, sn)
             ELSE IF ~Resolves(tm, typeName)
             THEN FlattenLoop(fields, i + 1, tm, res, SeenAdd(sn, typeName))
             ELSE LET inner == FlattenLoop(tm[typeName].Fields, 1, tm, <<>>,
                                           SeenAdd(sn, typeName))
                  IN  FlattenLoop(fields, i + 1, tm,
                                  AppendFields(res, inner.result),
                                  SeenDelete(inner.seen, typeName))

\* flattenFields(fields, typeMap, seen)
flattenFields(fields, tm, sn) == FlattenLoop(fields, 1, tm, <<>>, sn).result

\* a flattenFields call: its parameter fields, the index of its loop, its
\* local result, the typeName of the embedded field it is recursing into,
\* and (history, not in the code) the seen map as it was at entry
Frame(fields, entry) ==
    [fields |-> fields, i |-> 1, result |-> <<>>, typeName |-> "", entry |-> entry]

Top == stack[Len(stack)]
\* the field the innermost call is at
Cur == Top.fields[Top.i]
InLoop == pc = "flatten" /\ stack # <<>> /\ Top.i <= Len(Top.fields)
AtReturn == pc = "flatten" /\ stack # <<>> /\ Top.i > Len(Top.fields)
SetTop(f) == [stack EXCEPT ![Len(stack)] = f]

\* The code recurses only into names that are not in seen, so never deeper
\* than one call per declared name below the outermost call.  The guard of
\* FlattenFieldsRecurse stops the model one level beyond that.
DepthCap == Len(file.Types) + 2

\* the TemplateData of one execution: Types, and Type as <<>> for nil or
\* <<t>> for the pointer to t
TemplateData(ts, t) == [Types |-> ts, Type |-> t]

\* (mutant of Generate: typeMap is built over the filtered types)
GenerateMapsFiltered ==
    /\ pc = "idle"
    /\ Len(outs) < MaxRuns
    /\ types' = filterTypes(cfg, file.Types)
    /\ typeMap' = BuildTypeMap(filterTypes(cfg, file.Types))
    /\ ti' = 1
    /\ result' = <<>>
    /\ err' = "nil"
    /\ execs' = <<>>
    /\ pc' = "flatten"
    /\ UNCHANGED <<file, cfg, stack, seen, outs, call, xi>>

\* Generate, lines 50-59: filter, build typeMap, enter flattenEmbedded
Generate ==
    /\ pc = "idle"
    /\ Len(outs) < MaxRuns
    /\ types' = filterTypes(cfg, file.Types)
    /\ typeMap' = BuildTypeMap(file.Types)
    /\ ti' = 1
    /\ result' = <<>>
    /\ err' = "nil"
    /\ execs' = <<>>
    /\ pc' = "flatten"
    /\ UNCHANGED <<file, cfg, stack, seen, outs, call, xi>>

\* flattenEmbedded, lines 109-112: a type that is not a struct is copied
FlattenEmbeddedSkip ==
    /\ pc = "flatten" /\ stack = <<>> /\ ti <= Len(types)
    /\ types[ti].Kind # KindStruct
    /\ result' = Append(result, types[ti])
    /\ ti' = ti + 1
    /\ UNCHANGED <<file, cfg, pc, types, typeMap, stack, seen, outs, err, call, execs, xi>>

\* flattenEmbedded, line 114: call flattenFields with a new seen map
FlattenEmbeddedCall ==
    /\ pc = "flatten" /\ stack = <<>> /\ ti <= Len(types)
    /\ types[ti].Kind = KindStruct
    /\ seen' = {}
    /\ stack' = <<Frame(types[ti].Fields, {})>>
    /\ UNCHANGED <<file, cfg, pc, types, typeMap, ti, result, outs, err, call, execs, xi>>

\* flattenFields, lines 127-130: a field that is not embedded is appended
FlattenFieldsAppend ==
    /\ InLoop
    /\ ~Cur.IsEmbedded
    /\ stack' = SetTop([Top EXCEPT !.result = Append(@, Cur), !.i = @ + 1])
    /\ UNCHANGED <<file, cfg, pc, types, typeMap, ti, result, seen, outs, err, call, execs, xi>>

\* (mutant of FlattenFieldsSeen: the embedded field is kept in the result)
FlattenFieldsSeenKept ==
    /\ InLoop
    /\ Cur.IsEmbedded
    /\ SeenHas(seen, EmbeddedTypeName(Cur))
    /\ stack' = SetTop([Top EXCEPT !.result = Append(@, Cur), !.i = @ + 1])
    /\ UNCHANGED <<file, cfg, pc, types, typeMap, ti, result, seen, outs, err, call, execs, xi>>

\* flattenFields, lines 140-142: an embedded field whose type is in seen
FlattenFieldsSeen ==
    /\ InLoop
    /\ Cur.IsEmbedded
    /\ SeenHas(seen, EmbeddedTypeName(Cur))
    /\ stack' = SetTop([Top EXCEPT !.i = @ + 1])
    /\ UNCHANGED <<file, cfg, pc, types, typeMap, ti, result, seen, outs, err, call, execs, xi>>

\* (mutant of FlattenFieldsUnresolved: the field is kept instead of dropped)
FlattenFieldsUnresolvedKept ==
    /\ InLoop
    /\ Cur.IsEmbedded
    /\ ~SeenHas(seen, EmbeddedTypeName(Cur))
    /\ ~Resolves(typeMap, EmbeddedTypeName(Cur))
    /\ seen' = SeenAdd(seen, EmbeddedTypeName(Cur))
    /\ stack' = SetTop([Top EXCEPT !.result = Append(@, Cur), !.i = @ + 1])
    /\ UNCHANGED <<file, cfg, pc, types, typeMap, ti, result, outs, err, call, execs, xi>>

\* flattenFields, lines 143-151: the type is marked seen, is then not found
\* or not a struct, and the loop continues
FlattenFieldsUnresolved ==
    /\ InLoop
    /\ Cur.IsEmbedded
    /\ ~SeenHas(seen, EmbeddedTypeName(Cur))
    /\ ~Resolves(typeMap, EmbeddedTypeName(Cur))
    /\ seen' = SeenAdd(seen, EmbeddedTypeName(Cur))
    /\ stack' = SetTop([Top EXCEPT !.i = @ + 1])
    /\ UNCHANGED <<file, cfg, pc, types, typeMap, ti, result, outs, err, call, execs, xi>>

\* flattenFields, lines 143-154: the type is marked seen, is found, and
\* flattenFields is called on its fields with the same seen map
FlattenFieldsRecurse ==
    /\ InLoop
    /\ Cur.IsEmbedded
    /\ ~SeenHas(seen, EmbeddedTypeName(Cur))
    /\ Resolves(typeMap, EmbeddedTypeName(Cur))
    /\ Len(stack) < DepthCap
    /\ seen' = SeenAdd(seen, EmbeddedTypeName(Cur))
    /\ stack' = Append(SetTop([Top EXCEPT !.typeName = EmbeddedTypeName(Cur)]),
                       Frame(typeMap[EmbeddedTypeName(Cur)].Fields,
                             SeenAdd(seen, EmbeddedTypeName(Cur))))
    /\ UNCHANGED <<file, cfg, pc, types, typeMap, ti, result, outs, err, call, execs, xi>>

\* flattenFields, lines 154-157 and 160: the inner call returns its result,
\* the caller appends it and deletes the type from seen
FlattenFieldsSplice ==
    /\ AtReturn
    /\ Len(stack) > 1
    /\ LET caller == stack[Len(stack) - 1]
       IN  /\ stack' = SubSeq(stack, 1, Len(stack) - 2) \o
                        <<[caller EXCEPT !.result = AppendFields(@, Top.result),
                                         !.i = @ + 1,
                                         !.typeName = ""]>>
           /\ seen' = SeenDelete(seen, caller.typeName)
    /\ UNCHANGED <<file, cfg, pc, types, typeMap, ti, result, outs, err, call, execs, xi>>

\* (mutant of WithFields: a new type is made of the name, kind and fields)
WithFieldsOnly(t, flattened) == Type(t.Name, t.Kind, flattened, NilRef, FALSE)

\* `t.Fields = flattened` on the loop's copy t of the type
WithFields(t, flattened) == [t EXCEPT !.Fields = flattened]

\* flattenEmbedded, lines 115-116: the outermost call returns, its result
\* replaces the Fields of the copy of the type
FlattenEmbeddedStore ==
    /\ AtReturn
    /\ Len(stack) = 1
    /\ result' = Append(result, WithFields(types[ti], Top.result))
    /\ ti' = ti + 1
    /\ stack' = <<>>
    /\ UNCHANGED <<file, cfg, pc, types, typeMap, seen, outs, err, call, execs, xi>>

\* flattenEmbedded, line 119, and Generate, lines 59-63: the flattened types
\* replace types, and the per-type loop, if taken, starts at the first
FlattenEmbeddedReturn ==
    /\ pc = "flatten" /\ stack = <<>> /\ ti > Len(types)
    /\ types' = result
    /\ xi' = 1
    /\ pc' = "execute"
    /\ UNCHANGED <<file, cfg, typeMap, ti, result, stack, seen, outs, err, call, execs>>

\* Generate, lines 75-88: the template is executed once over all types and
\* succeeds or fails
ExecuteTemplate ==
    /\ pc = "execute"
    /\ ~cfg.Options.PerType
    /\ execs' = Append(execs, TemplateData(types, <<>>))
    /\ outs' = Append(outs, types)
    /\ err' \in {"nil", "executing template"}
    /\ pc' = "idle"
    /\ UNCHANGED <<file, cfg, types, typeMap, ti, result, stack, seen, call, xi>>

\* (mutant of ExecutePerType: a failed execution does not end the loop)
ExecutePerTypeGoesOn ==
    /\ pc = "execute"
    /\ cfg.Options.PerType
    /\ xi <= Len(types)
    /\ execs' = Append(execs, TemplateData(types, <<types[xi]>>))
    /\ xi' = xi + 1
    /\ err' \in {err, "executing template for " \o types[xi].Name}
    /\ UNCHANGED <<file, cfg, pc, types, typeMap, ti, result, stack, seen, outs, call>>

\* Generate, lines 63-73: the template is executed with types[i] as Type;
\* a failure returns the error that names types[i], else the loop goes on
ExecutePerType ==
    /\ pc = "execute"
    /\ cfg.Options.PerType
    /\ xi <= Len(types)
    /\ execs' = Append(execs, TemplateData(types, <<types[xi]>>))
    /\ \/ /\ xi' = xi + 1
          /\ UNCHANGED <<pc, outs, err>>
       \/ /\ err' = "executing template for " \o types[xi].Name
          /\ outs' = Append(outs, types)
          /\ pc' = "idle"
          /\ UNCHANGED xi
    /\ UNCHANGED <<file, cfg, types, typeMap, ti, result, stack, seen, call>>

\* Generate, lines 63 and 88: the per-type loop is over, nil is returned
ExecutePerTypeReturn ==
    /\ pc = "execute"
    /\ cfg.Options.PerType
    /\ xi > Len(types)
    /\ outs' = Append(outs, types)
    /\ pc' = "idle"
    /\ UNCHANGED <<file, cfg, types, typeMap, ti, result, stack, seen, err, call, execs, xi>>

-----------------------------------------------------------------------------
(* The parsed units of the generator's specification: a record R, a record *)
(* A and a third declaration C, which is a record, a named type or absent. *)
(* The k-th named field of a record has the k-th name of OwnNames.         *)

PlainSlot == [node |-> "Plain"]
OwnNames ==
    [R |-> <<"plainB", "plainD", "plainE", "plainF", "plainG">>,
     A |-> <<"x", "y">>,
     C |-> <<"z">>]

\* the field list of record d whose i-th entry is a named field where
\* pat[i] is PlainSlot and an embedded field of type pat[i] elsewhere
Body(d, pat) ==
    [i \in 1..Len(pat) |->
        IF pat[i] = PlainSlot
        THEN AstField(<<OwnNames[d][Cardinality({j \in 1..i : pat[j] = PlainSlot})]>>,
                      Ident("string"))
        ELSE AstField(<<>>, pat[i])]

RSlots == {PlainSlot, Ident("A"), Ident("C"), StarExpr(Ident("R"))}
ASlots == {PlainSlot, Ident("C"), StarExpr(Ident("R"))}

RBodies == {Body("R", pat) : pat \in UNION {[1..n -> RSlots] : n \in 0..MaxFields}}
ABodies == {Body("A", pat) : pat \in {<<PlainSlot>>} \cup {<<PlainSlot, s>> : s \in ASlots}}
\* C is absent, the named type `type C int` or the record with one field z
CDecls == {<<>>,
           <<TypeSpec("C", FALSE, Ident("int"))>>,
           <<TypeSpec("C", FALSE, StructType(Body("C", <<PlainSlot>>)))>>}

Sources ==
    {<<TypeSpec("R", FALSE, StructType(rb)), TypeSpec("A", FALSE, StructType(ab))>> \o cd :
        rb \in RBodies, ab \in ABodies, cd \in CDecls}

NoCall == [op |-> "none"]
\* the call of op has returned
Returned(op) == call.op = op /\ call.done

\* a generator made by generator.New(config.New()) and a parsed file
Init ==
    /\ file \in {ParseFile(TypeDecls(src)) : src \in Sources}
    /\ cfg = NewConfig
    /\ pc = "idle"
    /\ types = <<>>
    /\ typeMap = EmptyMap
    /\ ti = 1
    /\ result = <<>>
    /\ stack = <<>>
    /\ seen = {}
    /\ outs = <<>>
    /\ err = "nil"
    /\ execs = <<>>
    /\ xi = 1
    /\ call = NoCall

Next ==
    \/ Generate
    \/ FlattenEmbeddedSkip
    \/ FlattenEmbeddedCall
    \/ FlattenFieldsAppend
    \/ FlattenFieldsSeen
    \/ FlattenFieldsUnresolved
    \/ FlattenFieldsRecurse
    \/ FlattenFieldsSplice
    \/ FlattenEmbeddedStore
    \/ FlattenEmbeddedReturn
    \/ ExecuteTemplate

Spec == Init /\ [][Next]_vars

\* the program runs on: a call that can take a step takes it
FairSpec == Spec /\ WF_vars(Next)

-----------------------------------------------------------------------------
(* What the claims about flattening speak of.                              *)

\* declarationsByName of the parsed unit
Declared == BuildTypeMap(file.Types)
IsRecord(n) == n \in DOMAIN Declared /\ Declared[n].Kind = KindStruct

\* the declaration the i-th output declaration comes from
Origin(i) == filterTypes(cfg, file.Types)[i]

\* every Record that flattenEmbedded has flattened, when Generate is about
\* to hand its types to the template: the pair of the declaration it comes
\* from and the declaration flattenEmbedded made of it
Flattened ==
    IF pc = "execute"
    THEN {pr \in {<<Origin(i), types[i]>> : i \in 1..Len(types)} : pr[1].Kind = KindStruct}
    ELSE {}

Count(seq, x) == Cardinality({i \in 1..Len(seq) : seq[i] = x})
Elems(seq) == {seq[i] : i \in 1..Len(seq)}
PlainFields(fields) == SelectSeq(fields, LAMBDA f : ~f.IsEmbedded)
\* how many embedded fields of type n the field list has
EmbedCount(fields, n) ==
    Cardinality({i \in 1..Len(fields) :
                    fields[i].IsEmbedded /\ EmbeddedTypeName(fields[i]) = n})

\* the Records that Record n embeds
Embeds(n) ==
    IF IsRecord(n)
    THEN {m \in DOMAIN Declared : IsRecord(m) /\ EmbedCount(Declared[n].Fields, m) > 0}
    ELSE {}
RECURSIVE Closure(_)
Closure(S) ==
    LET T == S \cup UNION {Embeds(n) : n \in S}
    IN  IF T = S THEN S ELSE Closure(T)
\* the Records n embeds directly or transitively
EmbedsTransitively(n) == Closure(Embeds(n))
\* the Records on an embedding cycle through n
CycleOf(n) == {m \in EmbedsTransitively(n) : n \in EmbedsTransitively(m)}
\* every record on a cycle through n embeds each type at most once
EmbedsEachOnce(n) ==
    \A m \in CycleOf(n) : \A f \in Elems(Declared[m].Fields) :
        f.IsEmbedded => EmbedCount(Declared[m].Fields, EmbeddedTypeName(f)) = 1

\* the flattening of a field list as the specification describes it: named
\* fields stay, an embedded field of a Record that is not on the path is
\* replaced by the flattening of that Record's fields, any other is dropped
RECURSIVE Inlined(_, _)
Inlined(fields, path) ==
    IF fields = <<>> THEN <<>>
    ELSE LET f == Head(fields)
             n == EmbeddedTypeName(f)
         IN  (IF ~f.IsEmbedded THEN <<f>>
              ELSE IF n \in path \/ ~IsRecord(n) THEN <<>>
              ELSE Inlined(Declared[n].Fields, path \cup {n}))
             \o Inlined(Tail(fields), path)

FieldNames(fields) == [i \in 1..Len(fields) |-> fields[i].Name]
\* the parsed unit whose records R, A and C have these field lists
Unit(rpat, apat, cpat) ==
    ParseFile(TypeDecls(<<TypeSpec("R", FALSE, StructType(Body("R", rpat))),
                          TypeSpec("A", FALSE, StructType(Body("A", apat))),
                          TypeSpec("C", FALSE, StructType(Body("C", cpat)))>>))
\* the flattened field names of record R, once Generate has flattened it
FlatNamesOfR == {FieldNames(pr[2].Fields) : pr \in {q \in Flattened : q[1].Name = "R"}}

\* C1 (as claimed): a Record on an embedding cycle, every record of which
\* embeds each type at most once, has each of its own named fields exactly
\* once in its flattened field list.
C1_OwnFieldsOnceOnCycle ==
    \A pr \in Flattened :
        (pr[1].Name \in CycleOf(pr[1].Name) /\ EmbedsEachOnce(pr[1].Name)) =>
            \A f \in Elems(PlainFields(pr[1].Fields)) : Count(pr[2].Fields, f) = 1

\* C2: every run of Generate, also on units with embedding cycles, comes to
\* its end without the recursion ever going deeper than one call per
\* declaration, and all runs on the same unit give the same field lists.
C2_FlattenTerminatesSame ==
    /\ [](Len(stack) < DepthCap)
    /\ <>(pc = "idle" /\ Len(outs) = MaxRuns /\ \A k \in 1..Len(outs) : outs[k] = outs[1])
C2_Witness ==
    /\ pc = "idle" /\ Len(outs) = MaxRuns /\ outs[Len(outs)] = outs[1]
    /\ "R" \in CycleOf("R") /\ "A" \in CycleOf("R")

\* C3: the flattened field list of a Record is its field list with every
\* named field in place and every embedded field replaced, in place, by the
\* flattened fields of the Record it embeds; [A, plainB, C] with A = [x, y]
\* and C = [z] gives [x, y, plainB, z].
C3_OrderPreserved ==
    /\ \A pr \in Flattened : pr[2].Fields = Inlined(pr[1].Fields, {})
    /\ (pc = "execute" /\
        file = Unit(<<Ident("A"), PlainSlot, Ident("C")>>, <<PlainSlot, PlainSlot>>, <<PlainSlot>>))
          => FlatNamesOfR \subseteq {<<"x", "y", "plainB", "z">>}
C3_Witness ==
    /\ pc = "execute"
    /\ file = Unit(<<Ident("A"), PlainSlot, Ident("C")>>, <<PlainSlot, PlainSlot>>, <<PlainSlot>>)
    /\ FlatNamesOfR = {<<"x", "y", "plainB", "z">>}

\* an embedded field that names no Record of the unit
Unresolvable(f) == f.IsEmbedded /\ ~IsRecord(EmbeddedTypeName(f))

\* C4: an embedded field whose name is no key of declarationsByName, or is
\* the name of a declaration that is not a Record, is dropped: the flattened
\* list is the one of the field list without that field, and no error is
\* raised by flattening.
C4_UnresolvableDropped ==
    /\ \A pr \in Flattened :
          /\ \A f \in Elems(pr[2].Fields) : ~Unresolvable(f)
          /\ pr[2].Fields =
                Inlined(SelectSeq(pr[1].Fields, LAMBDA f : ~Unresolvable(f)), {})
    /\ pc = "flatten" => err = "nil"
C4_Witness ==
    \E pr \in Flattened : \E i \in 1..Len(pr[1].Fields) :
        /\ Unresolvable(pr[1].Fields[i])
        /\ i < Len(pr[1].Fields) /\ ~pr[1].Fields[i + 1].IsEmbedded
        /\ pr[1].Fields[i + 1] \in Elems(pr[2].Fields)
        /\ "C" \in DOMAIN Declared /\ EmbedCount(pr[1].Fields, "C") > 0

\* C5 (as claimed): at the return of every flattenFields call the seen set is
\* the seen set the call was entered with.
C5_SeenRestored == AtReturn => seen = Top.entry

\* C6: sibling embedded fields of the same Record are each inlined: a Record
\* with k embedded fields of Record n has every named field of n at least k
\* times in its flattened list; [A, plainB, A] with A = [x] gives
\* [x, plainB, x].
C6_SiblingsInlined ==
    /\ \A pr \in Flattened : \A n \in DOMAIN Declared :
          IsRecord(n) =>
              \A f \in Elems(PlainFields(Declared[n].Fields)) :
                  Count(pr[2].Fields, f) >= EmbedCount(pr[1].Fields, n)
    /\ (pc = "execute" /\
        file = Unit(<<Ident("A"), PlainSlot, Ident("A")>>, <<PlainSlot>>, <<PlainSlot>>))
          => FlatNamesOfR \subseteq {<<"x", "plainB", "x">>}
C6_Witness ==
    /\ pc = "execute"
    /\ file = Unit(<<Ident("A"), PlainSlot, Ident("A")>>, <<PlainSlot>>, <<PlainSlot>>)
    /\ FlatNamesOfR = {<<"x", "plainB", "x">>}

-----------------------------------------------------------------------------
(* The template function mapType, called on a configuration with any       *)
(* mapping table over MapKeys and on any reference of TypeRefs.            *)

\* the target spelling a table gives a key that it maps
MappedValue ==
    [k \in {"d.Decimal", "pkg.Decimal", "Decimal", "string", "chan", "[]string"} |->
        CASE k = "d.Decimal" -> "string-c"
          [] k = "pkg.Decimal" -> "string-a"
          [] k = "Decimal" -> "string-b"
          [] k = "string" -> "str"
          [] k = "chan" -> "never"
          [] k = "[]string" -> "StringList"]
MapKeys == DOMAIN MappedValue

\* every key is absent, mapped to itself or mapped to its MappedValue
Tables ==
    {[k \in {j \in MapKeys : a[j] # "absent"} |->
         IF a[k] = "identity" THEN k ELSE MappedValue[k]] :
        a \in [MapKeys -> {"absent", "identity", "mapped"}]}

BaseExprs ==
    {Ident("string"), Ident("Decimal"), SelectorExpr(Ident("pkg"), "Decimal"),
     InterfaceType, FuncType, ParenExpr(Ident("string"))}
RECURSIVE Exprs(_)
Exprs(d) ==
    IF d = 0 THEN BaseExprs
    ELSE LET E == Exprs(d - 1)
         IN  E \cup {StarExpr(e) : e \in E} \cup {SliceType(e) : e \in E}
               \cup {ArrayType(e) : e \in E} \cup {ChanType(e) : e \in E}
               \cup {Ellipsis(e) : e \in E}
               \cup {AstMapType(Ident("string"), e) : e \in E}

\* pkg.Decimal as the parser makes it
PkgDecimal == typeRefFromExpr(SelectorExpr(Ident("pkg"), "Decimal"))
\* the references of the parser, and one reference to pkg.Decimal whose Raw
\* is the spelling d.Decimal of an import alias
TypeRefs ==
    {typeRefFromExpr(e) : e \in Exprs(MaxNesting)}
        \cup {TypeRef(KindNamed, "Decimal", "pkg", NilRef, NilRef, NilRef, "d.Decimal")}

InitMapType ==
    /\ file = ParseFile(<<>>)
    /\ cfg \in {[NewConfig EXCEPT !.TypeMappings = tm] : tm \in Tables}
    /\ pc = "idle"
    /\ types = <<>>
    /\ typeMap = EmptyMap
    /\ ti = 1
    /\ result = <<>>
    /\ stack = <<>>
    /\ seen = {}
    /\ outs = <<>>
    /\ err = "nil"
    /\ execs = <<>>
    /\ xi = 1
    /\ call \in {[op |-> "mapType", t |-> t, done |-> FALSE, ret |-> ""] : t \in TypeRefs}

\* the template calls mapType (templateFuncs, lines 16-18)
CallMapType ==
    /\ pc = "idle"
    /\ call.op = "mapType" /\ ~call.done
    /\ call' = [call EXCEPT !.done = TRUE, !.ret = mapType(cfg, call.t)]
    /\ UNCHANGED <<file, cfg, pc, types, typeMap, ti, result, stack, seen, outs, err, execs, xi>>

NextMapType == CallMapType

SpecMapType == InitMapType /\ [][NextMapType]_vars

\* the table has an entry for key that is not the identity entry
Hit(key) == key \in DOMAIN cfg.TypeMappings /\ cfg.TypeMappings[key] # key
FullName(t) == t.Package \o "." \o t.Name
QualifiedHit(t) == t.Package # "" /\ Hit(FullName(t))

\* C7: the first of raw, qualifier.name (with a qualifier) and name that the
\* table matches gives the result; with {pkg.Decimal: string-a, Decimal:
\* string-b} the reference pkg.Decimal maps to string-a.
C7_PriorityOrder ==
    Returned("mapType") =>
        /\ Hit(call.t.Raw) => call.ret = cfg.TypeMappings[call.t.Raw]
        /\ (~Hit(call.t.Raw) /\ QualifiedHit(call.t))
              => call.ret = cfg.TypeMappings[FullName(call.t)]
        /\ (~Hit(call.t.Raw) /\ ~QualifiedHit(call.t) /\ Hit(call.t.Name))
              => call.ret = cfg.TypeMappings[call.t.Name]
        /\ (call.t = PkgDecimal /\ Hit("pkg.Decimal") /\ Hit("Decimal"))
              => call.ret = "string-a"
C7_Witness ==
    /\ Returned("mapType") /\ call.t = PkgDecimal
    /\ Hit("pkg.Decimal") /\ Hit("Decimal")
    /\ call.ret = "string-a"

\* the configuration without the entries that map a key to itself
WithoutIdentity(c) ==
    [c EXCEPT !.TypeMappings =
        [k \in {j \in DOMAIN c.TypeMappings : c.TypeMappings[j] # j} |-> c.TypeMappings[k]]]

\* C8: an entry that maps a key to itself counts as no entry: mapType gives
\* what it gives on the table without the identity entries.
C8_IdentityIsNoEntry ==
    Returned("mapType") => call.ret = mapType(WithoutIdentity(cfg), call.t)
C8_Witness ==
    /\ Returned("mapType") /\ call.t = PkgDecimal
    /\ "pkg.Decimal" \in DOMAIN cfg.TypeMappings /\ ~Hit("pkg.Decimal")
    /\ Hit("Decimal")
    /\ call.ret = "string-b"

\* the structural rule of the kind of t
ByKind(t) ==
    CASE t.Kind \in {KindSlice, KindArray} -> mapType(cfg, t.Elem) \o "[]"
      [] t.Kind = KindMap ->
            "Record<" \o mapType(cfg, t.Key) \o ", " \o mapType(cfg, t.Value) \o ">"
      [] t.Kind = KindPointer -> mapType(cfg, t.Elem) \o " | null"
      [] t.Kind = KindInterface -> "unknown"
      [] OTHER -> t.Name

\* C9 (as claimed): a reference whose raw spelling is not in the table maps
\* to the structural result of its kind.
C9_RawUnmappedStructural ==
    (Returned("mapType") /\ call.t.Raw \notin DOMAIN cfg.TypeMappings)
        => call.ret = ByKind(call.t)

\* C9 (amended): a reference whose raw spelling is not in the table, and
\* whose qualifier.name and name the table does not match either, maps to
\* the structural result of its kind; a Sequence of string, with no entry
\* that matches, maps to "string[]".
C9_UnmatchedStructural ==
    /\ (/\ Returned("mapType")
        /\ call.t.Raw \notin DOMAIN cfg.TypeMappings
        /\ ~QualifiedHit(call.t)
        /\ ~Hit(call.t.Name))
          => call.ret = ByKind(call.t)
    /\ (/\ Returned("mapType")
        /\ call.t = typeRefFromExpr(SliceType(Ident("string")))
        /\ ~Hit("[]string") /\ ~Hit("string"))
          => call.ret = "string[]"
C9_Witness ==
    /\ Returned("mapType")
    /\ call.t = typeRefFromExpr(ArrayType(Ident("Decimal")))
    /\ Hit("Decimal")
    /\ call.ret = "string-b[]"

-----------------------------------------------------------------------------
(* Config.ShouldIncludeType, called on a configuration with any include    *)
(* and exclude lists over FilterNames.                                     *)

FilterNames == {"User", "Internal"}
NameLists == UNION {[1..n -> FilterNames] : n \in 0..MaxListLen}

InitInclude ==
    /\ file = ParseFile(<<>>)
    /\ cfg \in {[NewConfig EXCEPT !.Options.ExportedOnly = e,
                                  !.Options.IncludeTypes = inc,
                                  !.Options.ExcludeTypes = exc] :
                    e \in BOOLEAN, inc \in NameLists, exc \in NameLists}
    /\ pc = "idle"
    /\ types = <<>>
    /\ typeMap = EmptyMap
    /\ ti = 1
    /\ result = <<>>
    /\ stack = <<>>
    /\ seen = {}
    /\ outs = <<>>
    /\ err = "nil"
    /\ execs = <<>>
    /\ xi = 1
    /\ call \in {[op |-> "ShouldIncludeType", name |-> name, isExported |-> isExported,
                   done |-> FALSE, ret |-> FALSE] :
                     name \in FilterNames \cup {"Order"}, isExported \in BOOLEAN}

\* filterTypes calls ShouldIncludeType (generator.go, line 96)
CallShouldIncludeType ==
    /\ pc = "idle"
    /\ call.op = "ShouldIncludeType" /\ ~call.done
    /\ call' = [call EXCEPT !.done = TRUE,
                            !.ret = ShouldIncludeType(cfg, call.name, call.isExported)]
    /\ UNCHANGED <<file, cfg, pc, types, typeMap, ti, result, stack, seen, outs, err, execs, xi>>

NextInclude == CallShouldIncludeType

SpecInclude == InitInclude /\ [][NextInclude]_vars

\* C10: shouldInclude is true exactly when (exportedOnly is false or the
\* name is exported) and (includeNames is empty or has the name) and
\* excludeNames has not the name.
C10_ShouldInclude ==
    Returned("ShouldIncludeType") =>
        (call.ret <=>
            /\ ~cfg.Options.ExportedOnly \/ call.isExported
            /\ cfg.Options.IncludeTypes = <<>> \/ call.name \in Elems(cfg.Options.IncludeTypes)
            /\ call.name \notin Elems(cfg.Options.ExcludeTypes))
C10_Witness ==
    /\ Returned("ShouldIncludeType")
    /\ call.name = "User" /\ call.isExported
    /\ cfg.Options.IncludeTypes = <<"User">> /\ cfg.Options.ExcludeTypes = <<"User">>
    /\ call.ret = FALSE

-----------------------------------------------------------------------------
(* Config.LoadFile, called on a configuration made by config.New, with any *)
(* document of Documents.                                                  *)

Documents ==
    [typeMappings : {Absent, Given([k \in {"string"} |-> "str"]),
                     Given([k \in {"string", "Money"} |->
                               IF k = "string" THEN "str" ELSE "number"])},
     tagKey : {Absent, Given("yaml")},
     perType : {Absent, Given(TRUE), Given(FALSE)},
     exportedOnly : {Absent, Given(TRUE), Given(FALSE)},
     includeTypes : {Absent, Given(<<"User">>)},
     excludeTypes : {Absent, Given(<<"Internal">>)}]

\* `call` holds the number n of LoadFile calls so far and, of the last one
\* that merged, the document, the configuration before it and done = TRUE
InitConfig ==
    /\ file = ParseFile(<<>>)
    /\ cfg = NewConfig
    /\ pc = "idle"
    /\ types = <<>>
    /\ typeMap = EmptyMap
    /\ ti = 1
    /\ result = <<>>
    /\ stack = <<>>
    /\ seen = {}
    /\ outs = <<>>
    /\ err = "nil"
    /\ execs = <<>>
    /\ xi = 1
    /\ call = [op |-> "LoadFile", n |-> 0, done |-> FALSE]

\* LoadFile, lines 37-67, on a file that parses: the document is unmarshalled
\* and merged
LoadFile ==
    /\ pc = "idle"
    /\ call.op = "LoadFile" /\ call.n < MaxLoads
    /\ \E doc \in Documents :
          /\ cfg' = merge(cfg, Unmarshal(doc))
          /\ call' = [op |-> "LoadFile", n |-> call.n + 1, done |-> TRUE,
                      doc |-> doc, before |-> cfg]
    /\ err' = "nil"
    /\ UNCHANGED <<file, pc, types, typeMap, ti, result, stack, seen, outs, execs, xi>>

\* LoadFile, lines 38-61, on a file that cannot be read or parsed: the error
\* is returned before merge
LoadFileFails ==
    /\ pc = "idle"
    /\ call.op = "LoadFile" /\ call.n < MaxLoads
    /\ call' = [op |-> "LoadFile", n |-> call.n + 1, done |-> FALSE]
    /\ err' \in {"reading config file", "unable to parse config as YAML or JSON"}
    /\ UNCHANGED <<file, cfg, pc, types, typeMap, ti, result, stack, seen, outs, execs, xi>>

NextConfig == LoadFile \/ LoadFileFails

SpecConfig == InitConfig /\ [][NextConfig]_vars

C12_OtherOptionsKept ==
    Returned("LoadFile") =>
        /\ call.doc.perType \in {Absent, Given(FALSE)}
              => cfg.Options.PerType = call.before.Options.PerType
        /\ call.doc.perType = Given(TRUE) => cfg.Options.PerType
        /\ call.doc.tagKey \in {Absent, Given("")}
              => cfg.Options.TagKey = call.before.Options.TagKey
        /\ call.doc.includeTypes \in {Absent, Given(<<>>)}
              => cfg.Options.IncludeTypes = call.before.Options.IncludeTypes
        /\ call.doc.excludeTypes \in {Absent, Given(<<>>)}
              => cfg.Options.ExcludeTypes = call.before.Options.ExcludeTypes

\* C13: after a merge every key of the document's typeMappings has the
\* document's value and every other key has the value it had before.
C13_MappingsMergedByKey ==
    Returned("LoadFile") =>
        LET over == ValueOr(call.doc.typeMappings, EmptyMap)
        IN  /\ \A k \in DOMAIN over :
                  k \in DOMAIN cfg.TypeMappings /\ cfg.TypeMappings[k] = over[k]
            /\ \A k \in DOMAIN call.before.TypeMappings \ DOMAIN over :
                  k \in DOMAIN cfg.TypeMappings
                    /\ cfg.TypeMappings[k] = call.before.TypeMappings[k]
            /\ DOMAIN cfg.TypeMappings = DOMAIN call.before.TypeMappings \cup DOMAIN over
C13_Witness ==
    /\ Returned("LoadFile")
    /\ call.before = NewConfig
    /\ call.doc.typeMappings # Absent /\ "Money" \in DOMAIN call.doc.typeMappings[1]
    /\ cfg.TypeMappings["string"] = "str"
    /\ cfg.TypeMappings["Money"] = "number"
    /\ cfg.TypeMappings["int"] = "number"

-----------------------------------------------------------------------------
(* Generate of a generator whose configuration was loaded from a document, *)
(* on units of exported and unexported records, a named type and a         *)
(* declaration that repeats a name.                                        *)

\* type User struct { Name string; base }
DeclUser ==
    TypeSpec("User", FALSE,
             StructType(<<AstField(<<"Name">>, Ident("string")),
                          AstField(<<>>, Ident("base"))>>))
\* type base struct { id int; *User; ID }
DeclBase ==
    TypeSpec("base", FALSE,
             StructType(<<AstField(<<"id">>, Ident("int")),
                          AstField(<<>>, StarExpr(Ident("User"))),
                          AstField(<<>>, Ident("ID"))>>))
\* type ID int
DeclID == TypeSpec("ID", FALSE, Ident("int"))
\* type User struct { Email string }
DeclUserAgain ==
    TypeSpec("User", FALSE, StructType(<<AstField(<<"Email">>, Ident("string"))>>))

\* type Audit struct { By string; models.User }
DeclAudit ==
    TypeSpec("Audit", FALSE,
             StructType(<<AstField(<<"By">>, Ident("string")),
                          AstField(<<>>, SelectorExpr(Ident("models"), "User"))>>))

DeclPool == {DeclUser, DeclBase, DeclID, DeclUserAgain, DeclAudit}

\* the units of at most MaxDecls declarations of the pool, in any order
ResolveSources ==
    UNION {{src \in [1..n -> DeclPool] :
               \A i, j \in 1..n : i # j => src[i] # src[j]} : n \in 0..MaxDecls}

ResolveDocuments ==
    [typeMappings : {Absent},
     tagKey : {Absent},
     perType : {Absent, Given(TRUE)},
     exportedOnly : {Absent, Given(TRUE)},
     includeTypes : {Absent, Given(<<"User">>)},
     excludeTypes : {Absent, Given(<<"ID">>), Given(<<"User">>)}]

\* a generator made by generator.New on a configuration that config.New
\* made and LoadFile loaded a document into, and a parsed file
InitResolve ==
    /\ file \in {ParseFile(TypeDecls(src)) : src \in ResolveSources}
    /\ cfg \in {merge(NewConfig, Unmarshal(doc)) : doc \in ResolveDocuments}
    /\ pc = "idle"
    /\ types = <<>>
    /\ typeMap = EmptyMap
    /\ ti = 1
    /\ result = <<>>
    /\ stack = <<>>
    /\ seen = {}
    /\ outs = <<>>
    /\ err = "nil"
    /\ execs = <<>>
    /\ xi = 1
    /\ call = NoCall

NextResolve ==
    \/ Generate
    \/ FlattenEmbeddedSkip
    \/ FlattenEmbeddedCall
    \/ FlattenFieldsAppend
    \/ FlattenFieldsSeen
    \/ FlattenFieldsUnresolved
    \/ FlattenFieldsRecurse
    \/ FlattenFieldsSplice
    \/ FlattenEmbeddedStore
    \/ FlattenEmbeddedReturn
    \/ ExecuteTemplate
    \/ ExecutePerType
    \/ ExecutePerTypeReturn

SpecResolve == InitResolve /\ [][NextResolve]_vars

\* the positions of the unit's declarations that the configuration includes
Eligible ==
    {k \in 1..Len(file.Types) :
        ShouldIncludeType(cfg, file.Types[k].Name, file.Types[k].IsExported)}
\* the position in the unit of the i-th eligible declaration
EligibleAt(i) ==
    CHOOSE k \in Eligible : Cardinality({j \in Eligible : j <= k}) = i

\* C14: each declaration handed to the template equals the declaration it
\* comes from in everything but Fields, and equals it in Fields too when it
\* is not a struct; the parsed file is as it was.
C14_OnlyRecordFieldsChange ==
    pc = "execute" =>
        /\ Len(types) = Len(filterTypes(cfg, file.Types))
        /\ \A i \in 1..Len(types) :
              /\ types[i].Name = Origin(i).Name
              /\ types[i].Kind = Origin(i).Kind
              /\ types[i].Doc = Origin(i).Doc
              /\ types[i].Underlying = Origin(i).Underlying
              /\ types[i].IsExported = Origin(i).IsExported
              /\ Origin(i).Kind # KindStruct => types[i].Fields = Origin(i).Fields
C14_Witness ==
    /\ pc = "execute"
    /\ \E i, j \in 1..Len(types) :
          /\ types[i].Kind = KindStruct /\ types[i].IsExported
          /\ types[i].Fields # Origin(i).Fields
          /\ types[j].Kind = KindNamed /\ types[j] = Origin(j)

\* C15: the declarations handed to the template are the eligible
\* declarations of the unit, one for each, in the unit's order.
C15_ExactlyTheIncluded ==
    pc = "execute" =>
        /\ Len(types) = Cardinality(Eligible)
        /\ \A i \in 1..Len(types) :
              LET d == file.Types[EligibleAt(i)]
              IN  /\ types[i].Name = d.Name
                  /\ types[i].Kind = d.Kind
                  /\ types[i].Underlying = d.Underlying
                  /\ types[i].Kind = KindStruct =>
                        PlainFields(d.Fields) # <<>>
                          /\ types[i].Fields[1] = PlainFields(d.Fields)[1]
C15_Witness ==
    /\ pc = "execute"
    /\ Len(file.Types) = 3
    /\ Len(types) = 2
    /\ ~ShouldIncludeType(cfg, file.Types[2].Name, file.Types[2].IsExported)
    /\ types[1].Name = "User" /\ types[2].Name = "User"
    /\ types[1].Fields # types[2].Fields

\* C19: when Generate has returned, in per-type mode the executions so far
\* are one for each of the first declarations handed over, in order and
\* with that declaration as Type; all of them when no error is returned,
\* and up to the one the error names otherwise.  Without per-type mode
\* there is the one execution over all declarations, with no Type.
C19_ExecutionModes ==
    (pc = "idle" /\ outs # <<>>) =>
        /\ Len(types) = Cardinality(Eligible)
        /\ \A i \in 1..Len(types) : types[i].Name = file.Types[EligibleAt(i)].Name
        /\ IF cfg.Options.PerType
           THEN /\ Len(execs) <= Len(types)
                /\ \A i \in 1..Len(execs) :
                      execs[i] = TemplateData(types, <<types[i]>>)
                /\ err = "nil" => Len(execs) = Len(types)
                /\ err # "nil" =>
                      /\ Len(execs) >= 1
                      /\ err = "executing template for " \o types[Len(execs)].Name
           ELSE execs = <<TemplateData(types, <<>>)>>
C19_Witness ==
    /\ pc = "idle" /\ outs # <<>>
    /\ cfg.Options.PerType
    /\ Len(types) = 2
    /\ Len(execs) = 1
    /\ err = "executing template for User"

-----------------------------------------------------------------------------
\* C20: no field list that flattenEmbedded stores has an embedded field, it
\* is the list flattenFields gives for the declaration's fields, and
\* flattenFields gives it back unchanged.
C20_NoEmbeddedLeft ==
    \A pr \in Flattened :
        /\ \A k \in 1..Len(pr[2].Fields) : ~pr[2].Fields[k].IsEmbedded
        /\ pr[2].Fields = flattenFields(pr[1].Fields, typeMap, {})
        /\ flattenFields(pr[2].Fields, typeMap, {}) = pr[2].Fields
C20_Witness ==
    \E pr \in Flattened :
        /\ \E k \in 1..Len(pr[1].Fields) :
              pr[1].Fields[k].IsEmbedded /\ Resolves(typeMap, EmbeddedTypeName(pr[1].Fields[k]))
        /\ \E k \in 1..Len(pr[1].Fields) :
              pr[1].Fields[k].IsEmbedded /\ ~Resolves(typeMap, EmbeddedTypeName(pr[1].Fields[k]))
        /\ Len(pr[2].Fields) > Len(PlainFields(pr[1].Fields))

-----------------------------------------------------------------------------
(* The parser on its own: typeRefFromExpr on a type expression,            *)
(* extractFields on a field list, ParseFile on the declarations of a file. *)

\* x string / a, b int / A / *A / time.Time / *time.Time
FieldEntries ==
    {AstField(<<"x">>, Ident("string")),
     AstField(<<"a", "b">>, Ident("int")),
     AstField(<<>>, Ident("A")),
     AstField(<<>>, StarExpr(Ident("A"))),
     AstField(<<>>, SelectorExpr(Ident("time"), "Time")),
     AstField(<<>>, StarExpr(SelectorExpr(Ident("time"), "Time")))}
FieldLists == UNION {[1..n -> FieldEntries] : n \in 0..MaxFields}

\* func f() { _; type local struct { x string }; { type X (int) } }
FuncWithTypes ==
    FuncDecl("f",
        <<ExprStmt,
          DeclStmt(GenDecl("type",
              <<TypeSpec("local", FALSE, StructType(<<AstField(<<"x">>, Ident("string"))>>))>>)),
          BlockStmt(<<DeclStmt(GenDecl("type",
              <<TypeSpec("X", FALSE, ParenExpr(Ident("int")))>>))>>)>>)
FileDecls ==
    {GenDecl("type", <<DeclUser>>),
     GenDecl("type", <<DeclUserAgain>>),
     GenDecl("type", <<DeclID, TypeSpec("C", TRUE, ChanType(Ident("int")))>>),
     GenDecl("type", <<>>),
     GenDecl("var", <<ValueSpec>>),
     FuncDecl("g", <<ExprStmt>>),
     FuncWithTypes}
Files == UNION {[1..n -> FileDecls] : n \in 0..MaxDecls}

InitParse ==
    /\ file = ParseFile(<<>>)
    /\ cfg = NewConfig
    /\ pc = "idle"
    /\ types = <<>>
    /\ typeMap = EmptyMap
    /\ ti = 1
    /\ result = <<>>
    /\ stack = <<>>
    /\ seen = {}
    /\ outs = <<>>
    /\ err = "nil"
    /\ execs = <<>>
    /\ xi = 1
    /\ call \in {[op |-> "typeRefFromExpr", expr |-> e, done |-> FALSE] :
                    e \in Exprs(MaxNesting)}
             \cup {[op |-> "extractFields", fieldList |-> l, done |-> FALSE] :
                    l \in FieldLists}
             \cup {[op |-> "ParseFile", decls |-> d, done |-> FALSE] : d \in Files}

CallTypeRefFromExpr ==
    /\ call.op = "typeRefFromExpr" /\ ~call.done
    /\ call' = [op |-> call.op, expr |-> call.expr, done |-> TRUE,
                ret |-> typeRefFromExpr(call.expr)]
    /\ UNCHANGED <<file, cfg, pc, types, typeMap, ti, result, stack, seen, outs, err, execs, xi>>

CallExtractFields ==
    /\ call.op = "extractFields" /\ ~call.done
    /\ call' = [op |-> call.op, fieldList |-> call.fieldList, done |-> TRUE,
                ret |-> extractFields(call.fieldList)]
    /\ UNCHANGED <<file, cfg, pc, types, typeMap, ti, result, stack, seen, outs, err, execs, xi>>

\* ParseFile on a file that parses; the result is the file the program has
CallParseFile ==
    /\ call.op = "ParseFile" /\ ~call.done
    /\ file' = ParseFile(call.decls)
    /\ call' = [call EXCEPT !.done = TRUE]
    /\ UNCHANGED <<cfg, pc, types, typeMap, ti, result, stack, seen, outs, err, execs, xi>>

NextParse == CallTypeRefFromExpr \/ CallExtractFields \/ CallParseFile

SpecParse == InitParse /\ [][NextParse]_vars

Kinds ==
    {KindStruct, KindAlias, KindNamed, KindBasic, KindSlice, KindArray,
     KindMap, KindPointer, KindInterface}
\* the shapes the conversion has a reference kind for
Supported(e) ==
    e.node \in {"Ident", "SelectorExpr", "StarExpr", "ArrayType", "MapType",
                "InterfaceType", "Ellipsis"}

\* C16 (as claimed): the conversion gives a reference for every expression,
\* and for a channel type, a function type and any shape it does not
\* recognize the reference is of kind Primitive and named "unknown".
C16_UnsupportedIsUnknown ==
    Returned("typeRefFromExpr") =>
        /\ call.ret.Kind \in Kinds
        /\ ~Supported(call.expr) =>
              call.ret.Kind = KindBasic /\ call.ret.Name = "unknown"

\* the bare name of the type an embedded field refers to
RECURSIVE BareName(_)
BareName(e) ==
    CASE e.node = "Ident" -> e.Name
      [] e.node = "SelectorExpr" -> e.Sel
      [] e.node = "StarExpr" -> BareName(e.X)
      [] OTHER -> ""
\* how many fields the entries before the j-th give
RECURSIVE FieldsBefore(_, _)
FieldsBefore(l, j) ==
    IF j = 1 THEN 0
    ELSE FieldsBefore(l, j - 1)
           + (IF l[j - 1].Names = <<>> THEN 1 ELSE Len(l[j - 1].Names))

\* C17 (as claimed): an entry without names gives one embedded field named by
\* the bare name of its type, with the pointer star stripped; no embedded
\* field has the empty name.
C17_EmbeddedNamedByType ==
    Returned("extractFields") =>
        /\ \A j \in 1..Len(call.fieldList) :
              call.fieldList[j].Names = <<>> =>
                LET k == FieldsBefore(call.fieldList, j) + 1
                IN  /\ k \in 1..Len(call.ret)
                    /\ call.ret[k].IsEmbedded
                    /\ call.ret[k].Name = BareName(call.fieldList[j].Type)
        /\ \A k \in 1..Len(call.ret) :
              call.ret[k].IsEmbedded => call.ret[k].Name # ""

\* the specs of the file's own `type` declarations, in source order
RECURSIVE TopLevelSpecs(_)
TopLevelSpecs(decls) ==
    IF decls = <<>> THEN <<>>
    ELSE (IF Head(decls).node = "GenDecl" /\ Head(decls).Tok = "type"
          THEN Head(decls).Specs ELSE <<>>) \o TopLevelSpecs(Tail(decls))

\* C18 (as claimed): the parsed file has one declaration for each top-level
\* type declaration of the source, in source order, and no other.
C18_TopLevelTypesOnly ==
    Returned("ParseFile") =>
        LET specs == TopLevelSpecs(call.decls)
        IN  /\ Len(file.Types) = Len(specs)
            /\ \A k \in 1..Len(specs) : file.Types[k] = extractType(specs[k])

-----------------------------------------------------------------------------
\* the embedded field's type is written pkg.T or *pkg.T
Qualified(f) ==
    /\ f.IsEmbedded
    /\ \/ f.Type.Package # ""
       \/ f.Type.Elem # NilRef /\ f.Type.Elem.Package # ""
WithoutQualified(fields) == SelectSeq(fields, LAMBDA f : ~Qualified(f))

\* C21 (as claimed): the fields stored for a struct are those flattenFields
\* gives for its field list without the embedded fields of a qualified
\* type: such a field adds nothing, whatever the unit declares.
C21_QualifiedEmbeddedDropped ==
    pc = "execute" =>
        \A i \in 1..Len(types) :
            Origin(i).Kind = KindStruct =>
                types[i].Fields =
                    flattenFields(WithoutQualified(Origin(i).Fields), typeMap, {})

-----------------------------------------------------------------------------
(* run of the command (main): the configuration is made, the file named by *)
(* -config is loaded into it, and the flag values are written over it.     *)
(* A flag of the command line is Absent or Given(value); the value of a    *)
(* -types or -exclude flag is the sequence of its names, commas and blanks. *)

\* the flag variables after flag.Parse: the default of init where not given
FlagDefaults ==
    [perType |-> FALSE, exportedOnly |-> TRUE, tagKey |-> "json",
     types |-> <<>>, exclude |-> <<>>]
FlagValues(cl) ==
    [perType |-> ValueOr(cl.perType, FlagDefaults.perType),
     exportedOnly |-> ValueOr(cl.exported, FlagDefaults.exportedOnly),
     tagKey |-> ValueOr(cl.tag, FlagDefaults.tagKey),
     types |-> ValueOr(cl.types, FlagDefaults.types),
     exclude |-> ValueOr(cl.exclude, FlagDefaults.exclude)]

\* strings.Split(s, ","), from the part cur read so far
RECURSIVE SplitComma(_, _)
SplitComma(s, cur) ==
    IF s = <<>> THEN <<cur>>
    ELSE IF Head(s) = "," THEN <<cur>> \o SplitComma(Tail(s), <<>>)
    ELSE SplitComma(Tail(s), Append(cur, Head(s)))
\* strings.TrimSpace
RECURSIVE TrimSpace(_)
TrimSpace(part) ==
    IF part = <<>> THEN <<>>
    ELSE IF Head(part) = " " THEN TrimSpace(Tail(part))
    ELSE IF part[Len(part)] = " " THEN TrimSpace(SubSeq(part, 1, Len(part) - 1))
    ELSE part
\* the string the pieces of a part spell
RECURSIVE Spelled(_)
Spelled(part) == IF part = <<>> THEN "" ELSE Head(part) \o Spelled(Tail(part))
\* parseCommaSeparated
parseCommaSeparated(s) ==
    LET parts == SplitComma(s, <<>>)
        trimmed == [k \in 1..Len(parts) |-> Spelled(TrimSpace(parts[k]))]
    IN  SelectSeq(trimmed, LAMBDA q : q # "")

\* run, lines 123-136: the CLI overrides
ApplyFlags(c, fl) ==
    [c EXCEPT
        !.Options.PerType = IF fl.perType THEN TRUE ELSE @,
        !.Options.ExportedOnly = fl.exportedOnly,
        !.Options.TagKey = IF fl.tagKey # "" THEN fl.tagKey ELSE @,
        !.Options.IncludeTypes = IF fl.types # <<>> THEN parseCommaSeparated(fl.types) ELSE @,
        !.Options.ExcludeTypes = IF fl.exclude # <<>> THEN parseCommaSeparated(fl.exclude) ELSE @]

RunDocuments ==
    [typeMappings : {Absent},
     tagKey : {Absent, Given("yaml")},
     perType : {Absent, Given(TRUE)},
     exportedOnly : {Absent, Given(TRUE), Given(FALSE)},
     includeTypes : {Absent, Given(<<"User">>)},
     excludeTypes : {Absent}]
CommandLines ==
    [config : {Absent} \cup {Given(doc) : doc \in RunDocuments},
     perType : {Absent, Given(TRUE)},
     exported : {Absent, Given(TRUE), Given(FALSE)},
     tag : {Absent, Given("db"), Given("")},
     types : {Absent, Given(<<"ID", ",", " ", "base", ",">>)},
     exclude : {Absent, Given(<<"ID">>)}]

\* `call` holds the command line cl, the place `at` the run is at and, once
\* the file is loaded, the configuration `loaded` as it was then
InitRun ==
    /\ file = ParseFile(<<>>)
    /\ cfg = NewConfig
    /\ pc = "idle"
    /\ types = <<>>
    /\ typeMap = EmptyMap
    /\ ti = 1
    /\ result = <<>>
    /\ stack = <<>>
    /\ seen = {}
    /\ outs = <<>>
    /\ err = "nil"
    /\ execs = <<>>
    /\ xi = 1
    /\ call \in {[op |-> "run", cl |-> cl, at |-> "config", done |-> FALSE,
                   loaded |-> NewConfig] : cl \in CommandLines}

\* run, lines 115-120: config.New and, with -config, LoadFile, which merges
\* the document or fails
RunLoadConfig ==
    /\ call.op = "run" /\ call.at = "config"
    /\ \/ /\ call.cl.config = Absent
          /\ cfg' = NewConfig
          /\ call' = [call EXCEPT !.at = "flags", !.loaded = NewConfig]
          /\ UNCHANGED err
       \/ /\ call.cl.config # Absent
          /\ cfg' = merge(NewConfig, Unmarshal(call.cl.config[1]))
          /\ call' = [call EXCEPT !.at = "flags",
                                  !.loaded = merge(NewConfig, Unmarshal(call.cl.config[1]))]
          /\ UNCHANGED err
       \/ /\ call.cl.config # Absent
          /\ cfg' = NewConfig
          /\ err' = "loading config"
          /\ call' = [call EXCEPT !.at = "failed"]
    /\ UNCHANGED <<file, pc, types, typeMap, ti, result, stack, seen, outs, execs, xi>>

\* run, lines 123-136: the flag values are applied; cfg is then the
\* configuration generator.New is given
RunApplyFlags ==
    /\ call.op = "run" /\ call.at = "flags"
    /\ cfg' = ApplyFlags(cfg, FlagValues(call.cl))
    /\ call' = [call EXCEPT !.at = "generate", !.done = TRUE]
    /\ UNCHANGED <<file, pc, types, typeMap, ti, result, stack, seen, outs, err, execs, xi>>

NextRun == RunLoadConfig \/ RunApplyFlags

SpecRun == InitRun /\ [][NextRun]_vars

\* C22 (as claimed): in a run with -config and without -tag and -exported,
\* the configuration handed to the generator has the TagKey and the
\* ExportedOnly the configuration had when the file was loaded.
C22_FileValuesSurviveDefaults ==
    (Returned("run") /\ call.cl.config # Absent
        /\ call.cl.tag = Absent /\ call.cl.exported = Absent) =>
            /\ cfg.Options.TagKey = call.loaded.Options.TagKey
            /\ cfg.Options.ExportedOnly = call.loaded.Options.ExportedOnly

-----------------------------------------------------------------------------
\* the configuration rejects the declarations named n
Rejected(n) == ~ShouldIncludeType(cfg, n, IsExported(n))

\* C23: a struct handed to the template has the fields flattenFields gives
\* with every declaration of the unit to look up; where it embeds a struct
\* the configuration rejects, the named fields of that struct are among
\* them, and no declaration of the rejected name is handed to the template.
C23_LookupUsesWholeUnit ==
    pc = "execute" =>
        LET unit == Declared
        IN  \A i \in 1..Len(types) :
                Origin(i).Kind = KindStruct =>
                    /\ types[i].Fields = flattenFields(Origin(i).Fields, unit, {})
                    /\ \A k \in 1..Len(Origin(i).Fields) :
                          LET f == Origin(i).Fields[k]
                              n == EmbeddedTypeName(f)
                          IN  (f.IsEmbedded /\ Resolves(unit, n) /\ Rejected(n)) =>
                                /\ Elems(PlainFields(unit[n].Fields))
                                      \subseteq Elems(types[i].Fields)
                                /\ \A j \in 1..Len(types) : types[j].Name # n
C23_Witness ==
    /\ pc = "execute"
    /\ \E i \in 1..Len(types) :
          /\ types[i].Name = "User"
          /\ Rejected("base")
          /\ FieldNames(types[i].Fields) = <<"Name", "id", "Name">>
          /\ \A j \in 1..Len(types) : types[j].Name # "base"

====
